---- MODULE Spec2Model ----
(***************************************************************************)
(* ArbitrageEngine (engine.py): one find_opportunities call over a list of *)
(* symbols, with the providers' get_ticker coroutines completing in any    *)
(* order.  Everything between two awaits is one action.                    *)
(*                                                                         *)
(* Numbers.  Prices are whole numbers of price steps, a step being one     *)
(* quote-currency unit, or a hundredth of one for a symbol quoted to the   *)
(* cent (PriceUnit steps make a unit).  Fee rates and asset amounts are    *)
(* counted in 1/RateScale, so money computed from them is in 1/RateScale   *)
(* of a price step.  Thresholds are counted in 1/ThrScale of a percent.  A *)
(* percentage is kept as the exact fraction pctNum / pctDen.  What the     *)
(* opportunity dict shows after round(_, 4) is in 1/RateScale of a unit.   *)
(*                                                                         *)
(* The code computes in doubles.  Every whole number of the model is below *)
(* 2^31, which holds for prices up to 200000 units, net profits up to 2000 *)
(* units and thresholds up to 20 percent; a double of the code then        *)
(* differs from the exact value by less than 10^-9.  So a test or a        *)
(* rounding of the code goes as it goes on the exact value wherever the    *)
(* exact value is further than that from the boundary: from a net profit   *)
(* of 0, from the threshold, from the point half way between two multiples *)
(* of 0.0001.  At the boundary and next to it the doubles are computed     *)
(* (PairFloats), operation by operation as the code does, and decide.      *)
(*                                                                         *)
(* Strings.  A provider's name and a key of the fees dict are sequences of *)
(* characters, each a string of length 1, so that str.lower() is computed  *)
(* character by character.                                                 *)
(***************************************************************************)
EXTENDS Integers, Sequences, FiniteSets, TLC

RateScale == 100 * 100
ThrScale == 10 * 100

\* buy_fees.get('taker', 0.002), in 1/RateScale
DefaultTaker == 20
\* config.get('threshold', 0.001), in 1/ThrScale
DefaultThreshold == 1
\* withdrawal_fees_map.get(base_asset, 0.0)
DefaultWithdrawal == 0

\* Longest symbols list of a call.
MaxSymbols == 2

(***************************************************************************)
(* Python values                                                           *)
(***************************************************************************)
\* A value stored under 'bid' or 'ask': a number, a non-numeric string, or
\* nothing (key missing or None: dict.get gives None for both).
Num(n) == [t |-> "num", v |-> n]
NoneVal == [t |-> "none", v |-> 0]
StrVal == [t |-> "str", v |-> 0]

\* bool(x): None and 0 are false; a non-empty string and any other number
\* (a negative one too) are true.
Truthy(x) == x.t = "str" \/ (x.t = "num" /\ x.v # 0)

\* float(x) raises ValueError on a non-numeric string (TypeError on None).
FloatRaises(x) == x.t # "num"

\* d.get(k, default) on a dict held as a function of its keys
DictGet(d, k, default) == IF k \in DOMAIN d THEN d[k] ELSE default

\* str.lower() on one character of a name written in ASCII: an upper-case
\* letter becomes its lower-case letter, any other character is kept
LowerChar(c) ==
  CASE c = "A" -> "a" [] c = "B" -> "b" [] c = "C" -> "c" [] c = "D" -> "d"
    [] c = "E" -> "e" [] c = "F" -> "f" [] c = "G" -> "g" [] c = "H" -> "h"
    [] c = "I" -> "i" [] c = "J" -> "j" [] c = "K" -> "k" [] c = "L" -> "l"
    [] c = "M" -> "m" [] c = "N" -> "n" [] c = "O" -> "o" [] c = "P" -> "p"
    [] c = "Q" -> "q" [] c = "R" -> "r" [] c = "S" -> "s" [] c = "T" -> "t"
    [] c = "U" -> "u" [] c = "V" -> "v" [] c = "W" -> "w" [] c = "X" -> "x"
    [] c = "Y" -> "y" [] c = "Z" -> "z"
    [] OTHER -> c

\* str.lower() on a provider's name (lines 69-70)
Lower(name) == [i \in 1..Len(name) |-> LowerChar(name[i])]

\* The names the providers carry
Binance == <<"B", "i", "n", "a", "n", "c", "e">>
Kraken == <<"K", "r", "a", "k", "e", "n">>
Bybit == <<"B", "y", "b", "i", "t">>
OKX == <<"O", "K", "X">>

\* The keys of the fees dict
KeyDefault == <<"d", "e", "f", "a", "u", "l", "t">>
KeyBinance == <<"b", "i", "n", "a", "n", "c", "e">>
KeyKraken == <<"k", "r", "a", "k", "e", "n">>
KeyOkx == <<"o", "k", "x">>

\* symbol.split('/')[0]; a symbol is held as its '/'-separated components
BaseAsset(symbol) == symbol[1]

(***************************************************************************)
(* Inputs                                                                  *)
(***************************************************************************)
BTCUSDT == <<"BTC", "USDT">>
ETHUSDT == <<"ETH", "USDT">>
SOLUSDT == <<"SOL", "USDT">>

\* Price steps in one quote-currency unit: SOL/USDT is quoted to the cent (a
\* bid of 100.19 is held as 10019), the other symbols in whole units.
PriceUnit(symbol) == IF symbol = SOLUSDT THEN 100 ELSE 1

\* What one get_ticker call ends with.
NoResult == [kind |-> "none", bid |-> NoneVal, ask |-> NoneVal]
Exception == [kind |-> "exception", bid |-> NoneVal, ask |-> NoneVal]
ErrorDict == [kind |-> "error", bid |-> NoneVal, ask |-> NoneVal]
Quote(b, a) == [kind |-> "quote", bid |-> b, ask |-> a]

TickerResults(symbol) ==
  IF symbol = BTCUSDT
    THEN { Exception, ErrorDict,
           Quote(Num(99), Num(100)),
           Quote(Num(101), Num(102)),
           Quote(Num(102), Num(103)),
           Quote(Num(102), Num(100)),
           Quote(Num(-1), Num(100)),
           Quote(NoneVal, Num(100)),
           Quote(Num(99), Num(0)),
           Quote(StrVal, StrVal) }
    ELSE IF symbol = ETHUSDT
    THEN { Exception,
           Quote(Num(99), Num(100)),
           Quote(Num(102), Num(103)) }
    ELSE IF symbol = SOLUSDT
    THEN { Exception,
           Quote(Num(8970), Num(8982)),
           Quote(Num(9018), Num(9030)),
           Quote(Num(9970), Num(9979)),
           Quote(Num(10019), Num(10030)) }
    ELSE { Exception,
           Quote(Num(99), Num(103)) }

\* The watch list; a call scans its last symbols, MaxSymbols at most.  "XRP"
\* is a symbol written without '/'.
XRP == <<"XRP">>
WatchList == <<XRP, ETHUSDT, BTCUSDT>>

SymbolLists ==
  { SubSeq(WatchList, Len(WatchList) - n + 1, Len(WatchList)) :
      n \in 0..(IF MaxSymbols < Len(WatchList) THEN MaxSymbols ELSE Len(WatchList)) }

\* The watch list of an engine that follows SOL/USDT
CentWatchList == <<ETHUSDT, SOLUSDT>>

CentSymbolLists ==
  { SubSeq(CentWatchList, Len(CentWatchList) - n + 1, Len(CentWatchList)) :
      n \in 0..(IF MaxSymbols < Len(CentWatchList) THEN MaxSymbols
                                                    ELSE Len(CentWatchList)) }

\* A Python object that is None, or a dict
PyNone == [none |-> TRUE, d |-> <<>>]
PyDict(d) == [none |-> FALSE, d |-> d]

EmptyDict == <<>>

FeesDefaultOnly ==
  KeyDefault :> [taker |-> 0, withdrawal_fees |-> [ETH |-> 5]]

FeesVenuesOnly ==
  (KeyBinance :> [taker |-> 10, withdrawal_fees |-> [BTC |-> 5]])
    @@ (KeyKraken :> [withdrawal_fees |-> EmptyDict])

\* Every venue on a default taker rate of 0.005
FeesHighTaker == KeyDefault :> [taker |-> 50]

\* Every venue on a default taker rate of 0.0033: buying at 100 and selling at
\* 102 then gives 1.32901...%, which is 1.3290 at four decimals
FeesNearThreshold == KeyDefault :> [taker |-> 33]

\* Every venue on a default taker rate of 0.0048: buying at 100 and selling at
\* 101 then leaves 0.0352, which is 0.035% of the cost
FeesThinMargin == KeyDefault :> [taker |-> 48]

\* Kraken on a taker rate of -1, a rebate of the whole price: what is bought
\* there costs 0.0 in all (line 75).  Binance and Bybit have no entry and
\* there is no default one, so they are on the taker rate of lines 74 and 79.
FeesFullRebate == KeyKraken :> [taker |-> -RateScale]

\* A config dict handed to the constructor: its 'fees' and 'threshold'
\* entries, each possibly missing.
Config(hasFees, fees, hasThreshold, threshold) ==
  [hasFees |-> hasFees, fees |-> fees,
   hasThreshold |-> hasThreshold, threshold |-> threshold]

NoFeesNoThreshold == Config(FALSE, PyDict(EmptyDict), FALSE, 0)

\* The constructor's arguments: the providers list (a provider being known by
\* its position and its name, and two providers may carry one name) and the
\* config.  fees.yml read by yaml.safe_load is None when the file is empty.
EngineArgs ==
  { << <<Binance, Kraken, Bybit>>, Config(TRUE, PyDict(FeesVenuesOnly), TRUE, 200) >>,
    << <<Binance, Kraken, Bybit>>, Config(TRUE, PyDict(FeesDefaultOnly), TRUE, 1000) >>,
    << <<Binance, Kraken, Bybit>>, NoFeesNoThreshold >>,
    << <<Binance, Binance>>, Config(TRUE, PyDict(FeesDefaultOnly), FALSE, 0) >>,
    << <<Binance, Kraken>>, Config(TRUE, PyNone, TRUE, 200) >>,
    << <<Kraken, Bybit>>, Config(TRUE, PyDict(FeesHighTaker), TRUE, -2000) >>,
    << <<Kraken, Bybit>>, Config(TRUE, PyDict(FeesNearThreshold), TRUE, 1329) >>,
    << <<Kraken, Bybit>>, Config(TRUE, PyDict(FeesThinMargin), FALSE, 0) >>,
    << <<Binance, Kraken, Bybit>>, Config(TRUE, PyDict(FeesFullRebate), TRUE, 200) >> }

\* OKX trading free of fees, every other venue on the taker rate of lines
\* 74 and 79
FeesFreeOKX == KeyOkx :> [taker |-> 0]

\* The engines that follow SOL/USDT: one with no fees configured, so every
\* venue on the taker rate of 0.002 of lines 74 and 79, and a threshold of
\* 0.0; one with OKX free of fees; one with every venue on 0.005.
CentEngineArgs ==
  { << <<Kraken, Bybit>>, Config(FALSE, PyDict(EmptyDict), TRUE, 0) >>,
    << <<OKX, Bybit>>, Config(TRUE, PyDict(FeesFreeOKX), TRUE, 200) >>,
    << <<Kraken, Bybit>>, Config(TRUE, PyDict(FeesHighTaker), TRUE, 200) >> }

(***************************************************************************)
(* State                                                                   *)
(***************************************************************************)
VARIABLES
  providers,          \* self.providers: the providers' names, by position
  fees_config,        \* self.fees_config
  profit_threshold,   \* self.profit_threshold
  pc,                 \* "idle", "gather", "done" (returned), "raised"
  exc,                \* the exception the call raised, "none" if none
  symbols,            \* the argument of the call
  symIdx,             \* position of the loop over symbols
  fetch,              \* per provider, its get_ticker task of the current
                      \* symbol: "pending", "done" with what it ended with,
                      \* or "hung"
  results,            \* the local of that name: what gather last returned,
                      \* the objects in it as the call has left them
  valid_tickers,      \* the local of that name, for the last symbol scanned
  evaluated,          \* the pairs the inner loop went through, last symbol
  all_opportunities,  \* the local of that name
  replay,             \* the call is a repeat of the one before, the providers
                      \* serving the same tickers again
  previous,           \* what the call before returned
  invoked             \* per provider and position in symbols, how many times
                      \* the call under way has called its get_ticker

vars == << providers, fees_config, profit_threshold, pc, exc, symbols, symIdx,
           fetch, results, valid_tickers, evaluated, all_opportunities,
           replay, previous, invoked >>

(***************************************************************************)
(* Exact arithmetic helpers                                                *)
(***************************************************************************)
\* floor(x * y / d) for y >= 0 and d > 0, y taken in two parts so that no large
\* product is formed
MulDivFloor(x, y, d) == x * (y \div d) + (x * (y % d)) \div d

\* <<(r * times) \div den, (r * times) % den>> for 0 <= r < den, r added
\* `times` times so that no number above den is formed
RECURSIVE TimesDivMod(_, _, _, _, _)
TimesDivMod(r, den, times, d, acc) ==
  IF times = 0 THEN <<d, acc>>
  ELSE IF acc >= den - r THEN TimesDivMod(r, den, times - 1, d + 1, acc - (den - r))
  ELSE TimesDivMod(r, den, times - 1, d, acc + r)

\* The digits of num/den after `places` more decimal places: <<quotient, rest>>;
\* r * 10 is formed only where it is a number of 32 bits
RECURSIVE LongDiv(_, _, _, _)
LongDiv(q, r, den, places) ==
  IF places = 0 THEN <<q, r>>
  ELSE LET dr == TimesDivMod(r, den, 10, 0, 0)
       IN  IF den <= 2147483647 \div 10
             THEN LongDiv(q * 10 + (r * 10) \div den, (r * 10) % den, den, places - 1)
             ELSE LongDiv(q * 10 + dr[1], dr[2], den, places - 1)

(***************************************************************************)
(* Python floats                                                           *)
(*                                                                         *)
(* The engine computes in IEEE 754 doubles.  A double is held as its sign, *)
(* its 53-bit significand and its exponent, the significand as a natural   *)
(* number of any size: its limbs in base LimbBase, lowest first, with no   *)
(* zero limb on top.                                                       *)
(***************************************************************************)
LimbBits == 15
LimbBase == 32768
\* bits in the significand of a double
Precision == 53

RECURSIVE Pow2(_)
Pow2(k) == IF k = 0 THEN 1 ELSE 2 * Pow2(k - 1)

RECURSIVE BigNorm(_)
BigNorm(a) ==
  IF a = <<>> THEN <<>>
  ELSE IF a[Len(a)] = 0 THEN BigNorm(SubSeq(a, 1, Len(a) - 1))
  ELSE a

RECURSIVE BigFromInt(_)
BigFromInt(n) ==
  IF n = 0 THEN <<>> ELSE <<n % LimbBase>> \o BigFromInt(n \div LimbBase)

RECURSIVE BigToInt(_)
BigToInt(a) == IF a = <<>> THEN 0 ELSE a[1] + LimbBase * BigToInt(Tail(a))

Limb(a, i) == IF i <= Len(a) THEN a[i] ELSE 0

\* -1, 0 or 1 as a is below, equal to or above b, from limb i down
RECURSIVE BigCmpFrom(_, _, _)
BigCmpFrom(a, b, i) ==
  IF i = 0 THEN 0
  ELSE IF Limb(a, i) > Limb(b, i) THEN 1
  ELSE IF Limb(a, i) < Limb(b, i) THEN -1
  ELSE BigCmpFrom(a, b, i - 1)

BigCmp(a, b) == BigCmpFrom(a, b, IF Len(a) > Len(b) THEN Len(a) ELSE Len(b))

RECURSIVE BigAddFrom(_, _, _, _)
BigAddFrom(a, b, i, carry) ==
  IF i > Len(a) /\ i > Len(b)
    THEN (IF carry = 0 THEN <<>> ELSE <<carry>>)
    ELSE LET s == Limb(a, i) + Limb(b, i) + carry
         IN  <<s % LimbBase>> \o BigAddFrom(a, b, i + 1, s \div LimbBase)

BigAdd(a, b) == BigAddFrom(a, b, 1, 0)

\* a - b for a >= b
RECURSIVE BigSubFrom(_, _, _, _)
BigSubFrom(a, b, i, borrow) ==
  IF i > Len(a) THEN <<>>
  ELSE LET d == Limb(a, i) - Limb(b, i) - borrow
       IN  IF d < 0 THEN <<d + LimbBase>> \o BigSubFrom(a, b, i + 1, 1)
           ELSE <<d>> \o BigSubFrom(a, b, i + 1, 0)

BigSub(a, b) == BigNorm(BigSubFrom(a, b, 1, 0))

\* a * k for 0 < k < LimbBase
RECURSIVE BigMulSmallFrom(_, _, _, _)
BigMulSmallFrom(a, k, i, carry) ==
  IF i > Len(a) THEN (IF carry = 0 THEN <<>> ELSE <<carry>>)
  ELSE LET p == a[i] * k + carry
       IN  <<p % LimbBase>> \o BigMulSmallFrom(a, k, i + 1, p \div LimbBase)

BigMulSmall(a, k) == BigMulSmallFrom(a, k, 1, 0)

RECURSIVE BigMulFrom(_, _, _)
BigMulFrom(a, b, j) ==
  IF j > Len(b) THEN <<>>
  ELSE BigAdd(IF b[j] = 0 THEN <<>>
              ELSE [i \in 1..(j - 1) |-> 0] \o BigMulSmall(a, b[j]),
              BigMulFrom(a, b, j + 1))

BigMul(a, b) == IF a = <<>> THEN <<>> ELSE BigMulFrom(a, b, 1)

RECURSIVE SmallBitLen(_)
SmallBitLen(n) == IF n = 0 THEN 0 ELSE 1 + SmallBitLen(n \div 2)

BitLen(a) ==
  IF a = <<>> THEN 0 ELSE LimbBits * (Len(a) - 1) + SmallBitLen(a[Len(a)])

\* bit i of a, bit 0 being the lowest
Bit(a, i) == (Limb(a, i \div LimbBits + 1) \div Pow2(i % LimbBits)) % 2

\* a * 2^k
BigShl(a, k) ==
  IF a = <<>> THEN <<>>
  ELSE [i \in 1..(k \div LimbBits) |-> 0] \o BigMulSmall(a, Pow2(k % LimbBits))

\* floor(a / 2^k)
BigShr(a, k) ==
  LET d == k \div LimbBits
      r == k % LimbBits
      t == IF d >= Len(a) THEN <<>> ELSE SubSeq(a, d + 1, Len(a))
  IN  BigNorm([i \in 1..Len(t) |->
                 t[i] \div Pow2(r) + (Limb(t, i + 1) % Pow2(r)) * Pow2(LimbBits - r)])

\* the k lowest bits of a are all 0
LowZero(a, k) == BigShl(BigShr(a, k), k) = a

\* a * LimbBase + d for a limb d
BigPush(a, d) == IF a = <<>> /\ d = 0 THEN <<>> ELSE <<d>> \o a

\* the largest d in lo..hi with b * d <= r, where b * lo <= r
RECURSIVE DigitFor(_, _, _, _)
DigitFor(r, b, lo, hi) ==
  IF lo = hi THEN lo
  ELSE LET mid == (lo + hi + 1) \div 2
       IN  IF BigCmp(BigMulSmall(b, mid), r) <= 0
             THEN DigitFor(r, b, mid, hi)
             ELSE DigitFor(r, b, lo, mid - 1)

\* The next digit of a quotient: the largest d with b * d <= r, for a b whose
\* top limb has its top bit set and an r below b * LimbBase.  It is at most
\* the two top limbs of r divided by the top limb of b, and at most 2 below
\* that.
QuotientDigit(r, b) ==
  LET top == (Limb(r, Len(b) + 1) * LimbBase + Limb(r, Len(b))) \div b[Len(b)]
      hi == IF top > LimbBase - 1 THEN LimbBase - 1 ELSE top
  IN  IF hi = 0 THEN 0 ELSE DigitFor(r, b, IF hi > 2 THEN hi - 2 ELSE 0, hi)

\* The quotient q and the rest r with the digit d taken
TakeDigit(q, r, b, d) ==
  <<BigPush(q, d), IF d = 0 THEN r ELSE BigSub(r, BigMulSmall(b, d))>>

\* One step of the long division: the rest r with the next limb of the
\* dividend pushed on it
DivStep(q, r, b) == TakeDigit(q, r, b, QuotientDigit(r, b))

\* <<floor(a / b), a mod b>> for a b whose top limb has its top bit set, by
\* long division in base LimbBase: qr is the quotient and the rest of the
\* limbs of a above limb i.  While the rest is 0 and the next limb of a is 0
\* the digit is 0 and the rest stays 0.
RECURSIVE BigDivModFrom(_, _, _, _)
BigDivModFrom(a, b, i, qr) ==
  IF i = 0 THEN qr
  ELSE IF qr[2] = <<>> /\ a[i] = 0
    THEN BigDivModFrom(a, b, i - 1, <<BigPush(qr[1], 0), <<>> >>)
    ELSE BigDivModFrom(a, b, i - 1, DivStep(qr[1], BigPush(qr[2], a[i]), b))

\* the same for a b of one limb, k: r is the rest so far, a number below k
RECURSIVE BigDivModSmallFrom(_, _, _, _, _)
BigDivModSmallFrom(a, k, i, q, r) ==
  IF i = 0 THEN <<q, BigFromInt(r)>>
  ELSE LET cur == r * LimbBase + a[i]
       IN  IF cur < k THEN BigDivModSmallFrom(a, k, i - 1, BigPush(q, 0), cur)
           ELSE BigDivModSmallFrom(a, k, i - 1, BigPush(q, cur \div k), cur % k)

\* <<floor(a / b), a mod b>> for b > 0; a and b are shifted so that the top
\* limb of b has its top bit set, which leaves the quotient as it is
BigDivModLong(a, b) == BigDivModFrom(a, b, Len(a), << <<>>, <<>> >>)

\* the rest of a division of numbers shifted by s bits, shifted back
RestShifted(qr, s) == <<qr[1], BigShr(qr[2], s)>>

BigDivModShifted(a, b, s) == RestShifted(BigDivModLong(BigShl(a, s), BigShl(b, s)), s)

BigDivMod(a, b) ==
  IF Len(b) = 1 THEN BigDivModSmallFrom(a, b[1], Len(a), <<>>, 0)
  ELSE BigDivModShifted(a, b, LimbBits - SmallBitLen(b[Len(b)]))

\* A double: (-1)^neg * m * 2^e, m being 0 or of Precision bits
FloatZero == [neg |-> FALSE, m |-> <<>>, e |-> 0]

\* (n + f) / 2^s rounded to the nearest whole number, a tie going to the even
\* one, for s > 0, where 0 < f < 1 if sticky and f = 0 if not
RoundHalfEven(n, s, sticky) ==
  BigAdd(BigShr(n, s),
         IF Bit(n, s - 1) = 1 /\ (sticky \/ ~LowZero(n, s - 1) \/ Bit(n, s) = 1)
           THEN <<1>> ELSE <<>>)

\* The double (-1)^neg * q * 2^e for a q of Precision bits, or of one more
\* when rounding up has carried into a new bit (q is then a power of 2)
Normal(neg, q, e) ==
  IF BitLen(q) > Precision THEN [neg |-> neg, m |-> BigShr(q, 1), e |-> e + 1]
  ELSE [neg |-> neg, m |-> q, e |-> e]

\* RoundToFloat for an n of len bits, len > 0
RoundBits(neg, n, e, sticky, len) ==
  IF len <= Precision
    THEN [neg |-> neg, m |-> BigShl(n, Precision - len), e |-> e - (Precision - len)]
    ELSE Normal(neg, RoundHalfEven(n, len - Precision, sticky), e + (len - Precision))

\* The double nearest to (-1)^neg * (n + f) * 2^e, a tie going to the even
\* significand, where 0 < f < 1 if sticky and f = 0 if not; with sticky, n
\* has more than Precision + 1 bits.
RoundToFloat(neg, n, e, sticky) ==
  IF n = <<>> THEN FloatZero ELSE RoundBits(neg, n, e, sticky, BitLen(n))

\* a quotient and its rest rounded: the double nearest to
\* (-1)^neg * (qr[1] + f) * 2^e, with f > 0 when there is a rest
RoundQuotient(neg, qr, e) == RoundToFloat(neg, qr[1], e, qr[2] # <<>>)

\* float(p / q) for a decimal literal or a number read by yaml: the double
\* nearest to p/q, for q > 0
FloatOf(p, q) ==
  LET a == IF p < 0 THEN -p ELSE p
      k == Precision + 2 + SmallBitLen(q)
  IN  RoundQuotient(p < 0, BigDivMod(BigShl(BigFromInt(a), k), BigFromInt(q)), -k)

FloatNeg(x) == [neg |-> ~x.neg, m |-> x.m, e |-> x.e]

\* x + y
\* The exact sum of (-1)^xneg * a * 2^e and (-1)^yneg * b * 2^e: its sign and
\* its size in units of 2^e
ExactSum(xneg, a, yneg, b) ==
  IF xneg = yneg THEN [neg |-> xneg, n |-> BigAdd(a, b)]
  ELSE IF BigCmp(a, b) >= 0 THEN [neg |-> xneg, n |-> BigSub(a, b)]
  ELSE [neg |-> yneg, n |-> BigSub(b, a)]

\* a sum that is exactly 0 is +0.0
RoundSum(sum, e) ==
  IF sum.n = <<>> THEN FloatZero ELSE RoundToFloat(sum.neg, sum.n, e, FALSE)

\* x + y of two doubles that are not 0, e being the lower of their exponents
AddAligned(x, y, e) ==
  RoundSum(ExactSum(x.neg, BigShl(x.m, x.e - e), y.neg, BigShl(y.m, y.e - e)), e)

FloatAdd(x, y) ==
  IF x.m = <<>> THEN y
  ELSE IF y.m = <<>> THEN x
  ELSE AddAligned(x, y, IF x.e < y.e THEN x.e ELSE y.e)

\* x - y
FloatSub(x, y) == FloatAdd(x, FloatNeg(y))

\* x * y
FloatMul(x, y) ==
  RoundToFloat(x.neg # y.neg, BigMul(x.m, y.m), x.e + y.e, FALSE)

\* x == 0.0
FloatIsZero(x) == x.m = <<>>

\* x / y for y # 0 (for y == 0.0 Python raises ZeroDivisionError)
FloatDiv(x, y) ==
  RoundQuotient(x.neg # y.neg, BigDivMod(BigShl(x.m, Precision + 2), y.m),
                x.e - (Precision + 2) - y.e)

\* x > 0
FloatPositive(x) == x.m # <<>> /\ ~x.neg

\* x > y
FloatGreater(x, y) == FloatPositive(FloatSub(x, y))

\* round(x, 4) in 1/RateScale: the multiple of 0.0001 nearest to the double
\* itself, a tie (which the double must then be exactly) going to the even one
Round4Size(n, e) ==
  IF e >= 0 THEN BigToInt(BigShl(n, e)) ELSE BigToInt(RoundHalfEven(n, -e, FALSE))

Signed(neg, r) == IF neg THEN -r ELSE r

FloatRound4(x) == Signed(x.neg, Round4Size(BigMul(x.m, BigFromInt(RateScale)), x.e))

\* round(_, 4) of a number whose exact value is num/den, den # 0, and whose
\* double is x, in 1/RateScale.  Python rounds the double to the nearest
\* multiple of 0.0001.  num/den is n/d with a d above 0, and is q + r/d
\* multiples, q being its floor.
\* The double is within 10^-9 of num/den, so it rounds as num/den does where
\* r/d is further than a thousandth from 1/2, which is 10^-7 of the
\* value; nearer to the half-way point, and on it, the double may lie on
\* either side, and is itself what is rounded.
Round4(num, den, x) ==
  LET n == IF den < 0 THEN -num ELSE num
      d == IF den < 0 THEN -den ELSE den
      qr == LongDiv(n \div d, n % d, d, 4)
      q == qr[1]
      r == qr[2]
      gap == IF r > d - r THEN r - (d - r) ELSE (d - r) - r
  IN  IF gap <= d \div 1000 THEN FloatRound4(x)
      ELSE IF r > d - r THEN q + 1
      ELSE q

(***************************************************************************)
(* find_opportunities, piece by piece                                      *)
(***************************************************************************)
\* gather without return_exceptions: the first exception of a task leaves it.
GatherRaisesOnException(res) == \E i \in 1..Len(res) : res[i].kind = "exception"

\* asyncio.gather(*tasks, return_exceptions=True): an exception of a task is
\* handed back in its slot, gather itself does not raise.
GatherRaises(res) == FALSE

\* Line 43: isinstance(res, dict) and 'error' not in res
\*          and res.get('ask') and res.get('bid')
IsValidTicker(res) ==
  /\ res.kind \in {"quote", "error"}
  /\ res.kind # "error"
  /\ Truthy(res.ask)
  /\ Truthy(res.bid)

\* Lines 41-46: the results that pass, in slot order, each tagged with the
\* name of the provider of its slot.
RECURSIVE ValidTickersFrom(_, _, _)
ValidTickersFrom(res, provs, i) ==
  IF i > Len(res) THEN <<>>
  ELSE IF IsValidTicker(res[i])
    THEN << [slot |-> i, bid |-> res[i].bid, ask |-> res[i].ask,
             provider_name |-> provs[i]] >>
         \o ValidTickersFrom(res, provs, i + 1)
    ELSE ValidTickersFrom(res, provs, i + 1)

ValidTickers(res, provs) == ValidTickersFrom(res, provs, 1)

\* itertools.product(range(1, n+1), repeat=2): a position paired with itself too
RECURSIVE ProductFrom(_, _, _)
ProductFrom(n, i, j) ==
  IF i > n THEN <<>>
  ELSE IF j > n THEN ProductFrom(n, i + 1, 1)
  ELSE << <<i, j>> >> \o ProductFrom(n, i, j + 1)

Product2(n) == ProductFrom(n, 1, 1)

\* itertools.permutations(range(1, n+1), 2): the ordered pairs of two
\* different positions, in lexicographic order.
RECURSIVE PermutationsFrom(_, _, _)
PermutationsFrom(n, i, j) ==
  IF i > n THEN <<>>
  ELSE IF j > n THEN PermutationsFrom(n, i + 1, 1)
  ELSE IF i = j THEN PermutationsFrom(n, i, j + 1)
  ELSE << <<i, j>> >> \o PermutationsFrom(n, i, j + 1)

Permutations2(n) == PermutationsFrom(n, 1, 1)

\* Line 68: self.fees_config.get('default', {}); None has no get.
FeeLookupRaises(fc) == fc.none
DefaultFees(fc) == DictGet(fc.d, KeyDefault, EmptyDict)

\* Lines 69-70: self.fees_config.get(name.lower(), default_fees)
FeesFor(fc, name) == DictGet(fc.d, Lower(name), DefaultFees(fc))

\* Lines 74, 79: fees.get('taker', 0.002)
TakerRate(fees) == DictGet(fees, "taker", DefaultTaker)

\* Lines 84-87: fees.get('withdrawal_fees', {}).get(base_asset, 0.0)
WithdrawalFee(fees, asset) ==
  DictGet(DictGet(fees, "withdrawal_fees", EmptyDict), asset, DefaultWithdrawal)

\* the buy fee taken off the cost instead of added to it
TotalCostFeeSubtracted(buy_price, buy_taker) ==
  buy_price * RateScale - buy_price * buy_taker

\* Lines 73-75, in 1/RateScale
TotalCost(buy_price, buy_taker) == buy_price * RateScale + buy_price * buy_taker

\* the revenue with no sell fee taken off
NetRevenueNoFee(sell_price, sell_taker) == sell_price * RateScale

\* Lines 78-80
NetRevenue(sell_price, sell_taker) == sell_price * RateScale - sell_price * sell_taker

\* the asset amount taken as if it were quote currency, not converted
WithdrawalFeeNotConverted(amount, buy_price) == amount

\* Line 90
WithdrawalFeeUsd(amount, buy_price) == amount * buy_price

\* the withdrawal fee converted at the sell price instead of the buy price
NetProfitSellSideWithdrawal(buy_price, sell_price, buy_taker, sell_taker, amount) ==
  (sell_price * RateScale - sell_price * sell_taker)
    - (buy_price * RateScale + buy_price * buy_taker)
    - amount * sell_price

\* Line 93
NetProfit(buy_price, sell_price, buy_taker, sell_taker, amount) ==
  NetRevenue(sell_price, sell_taker) - TotalCost(buy_price, buy_taker)
    - WithdrawalFeeUsd(amount, buy_price)

\* In the place of a quotient whose division raised
NoQuotient == FloatZero

\* Lines 60-102 in the doubles of the code, one operation of the code after
\* the other, for prices in 1/unit and rates and the amount in 1/RateScale:
\* the values the two tests are taken on and round(_, 4) is applied to.
\* The steps follow the code from its last operations to its first, each
\* taking the doubles computed before it:
\* lines 93, 98 and 101, net_profit_usd, profit_percentage and
\* gross_profit_usd.  Where total_cost_usd is 0.0 the division of line 98
\* raises and profit_percentage is never bound: the field then holds
\* NoQuotient, which nothing reads.
ProfitFloats(initial_cost_usd, revenue_usd, total_cost_usd, net_revenue_usd, withdrawal_fee_usd, total_fees_usd) ==
  LET net_profit_usd ==
        FloatSub(FloatSub(net_revenue_usd, total_cost_usd), withdrawal_fee_usd)
  IN  [ buy_price |-> initial_cost_usd,
        sell_price |-> revenue_usd,
        total_cost_usd |-> total_cost_usd,
        net_profit_usd |-> net_profit_usd,
        profit_percentage |->
          IF FloatIsZero(total_cost_usd) THEN NoQuotient
          ELSE FloatMul(FloatDiv(net_profit_usd, total_cost_usd), FloatOf(100, 1)),
        gross_profit_usd |-> FloatSub(revenue_usd, initial_cost_usd),
        total_fees_usd |-> total_fees_usd ]

\* lines 75, 80 and 102: total_cost_usd, net_revenue_usd and total_fees_usd
TotalFloats(initial_cost_usd, revenue_usd, buy_fee_usd, sell_fee_usd, withdrawal_fee_usd) ==
  ProfitFloats(initial_cost_usd, revenue_usd,
               FloatAdd(initial_cost_usd, buy_fee_usd),
               FloatSub(revenue_usd, sell_fee_usd),
               withdrawal_fee_usd,
               FloatAdd(FloatAdd(buy_fee_usd, sell_fee_usd), withdrawal_fee_usd))

\* lines 74, 79 and 90: buy_fee_usd, sell_fee_usd and withdrawal_fee_usd
FeeFloats(initial_cost_usd, revenue_usd, buy_taker, sell_taker, amount) ==
  TotalFloats(initial_cost_usd, revenue_usd,
              FloatMul(initial_cost_usd, buy_taker),
              FloatMul(revenue_usd, sell_taker),
              FloatMul(amount, initial_cost_usd))

PairFloats(buy_price, sell_price, buy_taker, sell_taker, amount, unit) ==
  FeeFloats(FloatOf(buy_price, unit), FloatOf(sell_price, unit),
            FloatOf(buy_taker, RateScale), FloatOf(sell_taker, RateScale),
            FloatOf(amount, RateScale))

\* floor(thr * total_cost / (100 * ThrScale)): the exact percentage
\* (net_profit / total_cost) * 100 is the threshold thr / ThrScale where
\* net_profit is thr * total_cost / (100 * ThrScale)
ThresholdBar(total_cost, thr) == MulDivFloor(thr, total_cost, 100 * ThrScale)

\* The net profit is less than one of its steps away from the one at which
\* the exact percentage is the threshold, or is that one
NearThreshold(net_profit, total_cost, thr) ==
  net_profit - ThresholdBar(total_cost, thr) \in {0, 1}

\* Line 100: profit_percentage > self.profit_threshold, for a total cost
\* that is not 0, x being the pair's doubles.  A step of the net profit
\* moves the percentage by more than 10^-8, so away from the threshold the
\* doubles compare as the exact values do: net_profit / total_cost is above
\* thr / (100 * ThrScale) where net_profit is above thr * total_cost /
\* (100 * ThrScale) for a total cost above 0, and where it is below that for
\* a total cost below 0 (a negative ask is a valid one).  Near the threshold
\* the double of the percentage is compared with the double of the
\* threshold.
AboveThreshold(net_profit, total_cost, thr, x) ==
  IF NearThreshold(net_profit, total_cost, thr)
    THEN FloatGreater(x.profit_percentage, FloatOf(thr, ThrScale))
  ELSE IF total_cost > 0 THEN net_profit > ThresholdBar(total_cost, thr)
  ELSE net_profit < ThresholdBar(total_cost, thr)

\* Line 95: net_profit_usd <= 0, on the double: an exact net profit of 0 may
\* be a double just above or below 0, and one that is not 0 is a step of the
\* net profit or more away from 0.
NoProfit(net_profit, x) ==
  IF net_profit = 0 THEN ~FloatPositive(x.net_profit_usd) ELSE net_profit < 0

\* Line 98: net_profit_usd / total_cost_usd raises ZeroDivisionError where
\* the double total_cost_usd is 0.0.  A total cost that is not 0 is a step or
\* more away from 0, and so is its double; one that is 0 has a buy-side
\* taker rate of -1 (an ask of 0 does not pass the filter of line 43), and
\* its double is taken from the doubles of the pair.
DivisionRaises(total_cost, x) ==
  total_cost = 0 /\ FloatIsZero(x.total_cost_usd)

\* Lines 95-100: a pair without a positive net profit is dropped; for one
\* with a positive net profit the division of line 98 raises where the total
\* cost is 0.0; then a pair whose percentage is not above the threshold is
\* dropped.
Outcome(net_profit, total_cost, thr, x) ==
  IF NoProfit(net_profit, x) THEN "no_profit"
  ELSE IF DivisionRaises(total_cost, x) THEN "raised_division"
  ELSE IF AboveThreshold(net_profit, total_cost, thr, x) THEN "emitted"
  ELSE "below_threshold"

\* the two sides taken the wrong way round, bought at the bid and sold at the
\* ask, where the buy ticker has a bid above 0
PairPricesSwapped(bt, st) ==
  IF bt.bid.v > 0 THEN [buy |-> bt.bid.v, sell |-> st.ask.v]
  ELSE [buy |-> bt.ask.v, sell |-> st.bid.v]

\* Lines 60-61: the pair is bought at the buy ticker's ask and sold at the
\* sell ticker's bid.
PairPrices(bt, st) == [buy |-> bt.ask.v, sell |-> st.bid.v]

\* What the loop body does with a pair that is not computed to the end.
Skipped(bt, st, outcome, bp, sp) ==
  [ buy |-> bt.slot, sell |-> st.slot,
    buy_at |-> bt.provider_name, sell_at |-> st.provider_name,
    outcome |-> outcome, buy_price |-> bp, sell_price |-> sp,
    buy_taker |-> 0, sell_taker |-> 0, withdrawal_amount |-> 0,
    total_cost |-> 0, net_revenue |-> 0, withdrawal_fee |-> 0,
    net_profit |-> 0, pctNum |-> 0, pctDen |-> 1 ]

\* Lines 57-100 for one pair: what was read and computed, and how it ended:
\* "raised_float", "no_spread", "raised_fees", "no_profit",
\* "raised_division", "below_threshold" or "emitted".
EvalPair(symbol, bt, st, fc, thr) ==
  IF FloatRaises(bt.ask) \/ FloatRaises(st.bid)
    THEN Skipped(bt, st, "raised_float", 0, 0)
  ELSE
    LET buy_price == PairPrices(bt, st).buy
        sell_price == PairPrices(bt, st).sell
    IN
    IF buy_price >= sell_price
      THEN Skipped(bt, st, "no_spread", buy_price, sell_price)
    ELSE IF FeeLookupRaises(fc)
      THEN Skipped(bt, st, "raised_fees", buy_price, sell_price)
    ELSE
      LET buy_fees == FeesFor(fc, bt.provider_name)
          sell_fees == FeesFor(fc, st.provider_name)
          buy_taker == TakerRate(buy_fees)
          sell_taker == TakerRate(sell_fees)
          amount == WithdrawalFee(buy_fees, BaseAsset(symbol))
          total_cost == TotalCost(buy_price, buy_taker)
          net_profit == NetProfit(buy_price, sell_price, buy_taker, sell_taker, amount)
          pctNum == net_profit * 100
      IN [ buy |-> bt.slot, sell |-> st.slot,
           buy_at |-> bt.provider_name, sell_at |-> st.provider_name,
           outcome |-> Outcome(net_profit, total_cost, thr,
                               PairFloats(buy_price, sell_price, buy_taker, sell_taker,
                                          amount, PriceUnit(symbol))),
           buy_price |-> buy_price, sell_price |-> sell_price,
           buy_taker |-> buy_taker, sell_taker |-> sell_taker,
           withdrawal_amount |-> amount,
           total_cost |-> total_cost,
           net_revenue |-> NetRevenue(sell_price, sell_taker),
           withdrawal_fee |-> WithdrawalFeeUsd(amount, buy_price),
           net_profit |-> net_profit, pctNum |-> pctNum, pctDen |-> total_cost ]

\* The doubles of a pair that was computed
FloatsOf(symbol, e) ==
  PairFloats(e.buy_price, e.sell_price, e.buy_taker, e.sell_taker,
             e.withdrawal_amount, PriceUnit(symbol))

\* Lines 101-114: the dict appended for an emitted pair whose doubles are x,
\* money and the percentage in 1/RateScale of a unit after round(_, 4).
OpportunityDict(symbol, e, x) ==
  [ symbol |-> symbol,
    buy_at |-> e.buy_at,
    sell_at |-> e.sell_at,
    buy_price |-> Round4(e.buy_price, PriceUnit(symbol), x.buy_price),
    sell_price |-> Round4(e.sell_price, PriceUnit(symbol), x.sell_price),
    gross_profit_usd |-> Round4(e.sell_price - e.buy_price, PriceUnit(symbol),
                                x.gross_profit_usd),
    total_fees_usd |-> Round4(e.buy_price * e.buy_taker + e.sell_price * e.sell_taker
                              + e.withdrawal_fee, RateScale * PriceUnit(symbol),
                              x.total_fees_usd),
    net_profit_usd |-> Round4(e.net_profit, RateScale * PriceUnit(symbol),
                              x.net_profit_usd),
    profit_percentage |-> Round4(e.pctNum, e.pctDen, x.profit_percentage) ]

Opportunity(symbol, e) == OpportunityDict(symbol, e, FloatsOf(symbol, e))

\* round(profit_percentage, 4) and round(net_profit_usd, 4) of a pair that
\* was computed (lines 112-113)
ShownPercentage(symbol, e) == Opportunity(symbol, e).profit_percentage

ShownNetProfit(symbol, e) == Opportunity(symbol, e).net_profit_usd

\* Lines 60-61, 68 and 98: the exception that leaves the loop at a pair
Raises(e) == e.outcome \in {"raised_float", "raised_fees", "raised_division"}

ExceptionOf(e) ==
  IF e.outcome = "raised_float" THEN "ValueError"
  ELSE IF e.outcome = "raised_fees" THEN "AttributeError"
  ELSE "ZeroDivisionError"

\* Lines 55-115: the loop over the pairs, which the first pair that raises
\* leaves: the pairs gone through, the opportunities appended, in the order of
\* the pairs, and the exception raised if any.
\* pairs being what each pair of the loop would come to
LoopOver(symbol, pairs) ==
  LET raising == { k \in 1..Len(pairs) : Raises(pairs[k]) }
      last == IF raising = {} THEN Len(pairs)
              ELSE CHOOSE k \in raising : \A j \in raising : k <= j
      gone == [k \in 1..last |-> pairs[k]]
      emitted == SelectSeq(gone, LAMBDA e : e.outcome = "emitted")
  IN  [ evaluated |-> gone,
        opps |-> [k \in 1..Len(emitted) |-> Opportunity(symbol, emitted[k])],
        exc |-> IF raising = {} THEN "none" ELSE ExceptionOf(pairs[last]) ]

ScanPairs(symbol, valid, perms, fc, thr) ==
  LoopOver(symbol,
           [k \in 1..Len(perms) |->
             EvalPair(symbol, valid[perms[k][1]], valid[perms[k][2]], fc, thr)])

\* the valid tickers of a symbol with what the loop over their pairs gave
Scanned(valid, s) ==
  [valid |-> valid, evaluated |-> s.evaluated, opps |-> s.opps, exc |-> s.exc]

\* a symbol with fewer than two valid tickers taken as an error of the call
ScanSymbolFewIsError(symbol, res, provs, fc, thr) ==
  LET valid == ValidTickers(res, provs)
  IN  IF Len(valid) < 2
        THEN [valid |-> valid, evaluated |-> <<>>, opps |-> <<>>, exc |-> "ValueError"]
        ELSE Scanned(valid, ScanPairs(symbol, valid, Permutations2(Len(valid)), fc, thr))

\* Lines 41-115 for one symbol, the results of its fetches being in.
ScanSymbol(symbol, res, provs, fc, thr) ==
  LET valid == ValidTickers(res, provs)
  IN  IF Len(valid) < 2
        THEN [valid |-> valid, evaluated |-> <<>>, opps |-> <<>>, exc |-> "none"]
        ELSE Scanned(valid, ScanPairs(symbol, valid, Permutations2(Len(valid)), fc, thr))

(***************************************************************************)
(* The engine as a state machine                                           *)
(***************************************************************************)
\* __init__: config.get('fees', {}) and config.get('threshold', 0.001), for
\* one of the given engines
Constructed(engines) ==
  /\ \E args \in engines :
       LET config == args[2] IN
       /\ providers = args[1]
       /\ fees_config = (IF config.hasFees THEN config.fees ELSE PyDict(EmptyDict))
       /\ profit_threshold =
            (IF config.hasThreshold THEN config.threshold ELSE DefaultThreshold)
  /\ pc = "idle"
  /\ exc = "none"
  /\ symbols = <<>>
  /\ symIdx = 0
  /\ fetch = [i \in 1..Len(providers) |-> [st |-> "none", res |-> NoResult]]
  /\ results = <<>>
  /\ valid_tickers = <<>>
  /\ evaluated = <<>>
  /\ all_opportunities = <<>>
  /\ replay = FALSE
  /\ previous = <<>>
  /\ invoked = [i \in 1..Len(providers) |-> <<>>]

Init == Constructed(EngineArgs)

\* Line 37: one get_ticker coroutine per provider, handed to gather.
IssueFetches == [i \in 1..Len(providers) |-> [st |-> "pending", res |-> NoResult]]

\* A call starts with no get_ticker called
NoneInvoked(syms) == [i \in 1..Len(providers) |-> [k \in 1..Len(syms) |-> 0]]

\* Line 37: provider.get_ticker(symbol) is called for every provider, symbol
\* being the one at position k
Invoke(inv, k) == [i \in DOMAIN inv |-> [inv[i] EXCEPT ![k] = @ + 1]]

\* a list kept from one call to the next
CarriedOpportunities == all_opportunities

\* Line 34: all_opportunities = [], a local made anew by every call
NewOpportunities == <<>>

\* find_opportunities up to its first await (lines 34-38) on an engine whose
\* threshold is thr by then; no symbol, no await.
Enter(syms, thr) ==
  /\ pc = "idle"
  /\ Len(syms) <= MaxSymbols
  /\ profit_threshold' = thr
  /\ symbols' = syms
  /\ all_opportunities' = NewOpportunities
  /\ IF syms = <<>>
       THEN /\ pc' = "done"
            /\ invoked' = NoneInvoked(syms)
            /\ UNCHANGED << symIdx, fetch >>
       ELSE /\ pc' = "gather"
            /\ symIdx' = 1
            /\ fetch' = IssueFetches
            /\ invoked' = Invoke(NoneInvoked(syms), 1)
  /\ UNCHANGED << providers, fees_config, exc, results, valid_tickers,
                  evaluated, replay, previous >>

\* find_opportunities called on the engine as the constructor left it
Call(syms) == Enter(syms, profit_threshold)

\* ui/components.py, lines 74-81: the sidebar's number input, 0.2 unless
\* the user has changed it, in 1/ThrScale
SidebarThresholds == { 200 }

\* ui/tabs.py, lines 115-121: the button of the arbitrage tab writes the
\* sidebar's threshold into the engine, then calls it.
ShowArbitrageTab(syms, thr) == Enter(syms, thr)

\* The same engine is called once more with the same one symbol after a call
\* that returned, and the providers serve the tickers of that call again
\* (the local results of the call before still holds them).
CallAgain ==
  /\ pc = "done"
  /\ Len(symbols) = 1
  /\ replay' = TRUE
  /\ previous' = all_opportunities
  /\ all_opportunities' = NewOpportunities
  /\ pc' = "gather"
  /\ symIdx' = 1
  /\ fetch' = IssueFetches
  /\ invoked' = Invoke(NoneInvoked(symbols), 1)
  /\ valid_tickers' = <<>>
  /\ evaluated' = <<>>
  /\ UNCHANGED << providers, fees_config, profit_threshold, exc, symbols,
                  results >>

\* What the get_ticker of provider i can end with
Served(i) == IF replay THEN { results[i] } ELSE TickerResults(symbols[symIdx])

\* a get_ticker that raised is called again
OnFetchEndRetry(r) ==
  IF r.kind = "exception"
    THEN [task |-> [st |-> "pending", res |-> NoResult], called_again |-> 1]
    ELSE [task |-> [st |-> "done", res |-> r], called_again |-> 0]

\* Lines 37-38: the coroutine made at line 37 is awaited by gather, and what
\* it ends with, a dict or an exception, is its task's outcome; nothing calls
\* get_ticker a second time.
OnFetchEnd(r) == [task |-> [st |-> "done", res |-> r], called_again |-> 0]

\* A provider's get_ticker ends: it returns a dict or raises.
FetchComplete(i) ==
  /\ pc = "gather"
  /\ fetch[i].st = "pending"
  /\ \E r \in Served(i) :
       /\ fetch' = [fetch EXCEPT ![i] = OnFetchEnd(r).task]
       /\ invoked' = [invoked EXCEPT ![i][symIdx] = @ + OnFetchEnd(r).called_again]
  /\ UNCHANGED << providers, fees_config, profit_threshold, pc, exc, symbols,
                  symIdx, results, valid_tickers, evaluated, all_opportunities,
                  replay, previous >>

\* A provider's get_ticker awaits an update that never comes.
FetchHang(i) ==
  /\ pc = "gather"
  /\ fetch[i].st = "pending"
  /\ fetch' = [fetch EXCEPT ![i] = [st |-> "hung", res |-> NoResult]]
  /\ UNCHANGED << providers, fees_config, profit_threshold, pc, exc, symbols,
                  symIdx, results, valid_tickers, evaluated, all_opportunities,
                  replay, previous, invoked >>

\* the outcomes handed back last task first
GatheredReversed(tasks) == [i \in 1..Len(tasks) |-> tasks[Len(tasks) + 1 - i].res]

\* Line 45: res['provider_name'] = self.providers[i].name writes into the
\* dict the provider returned: the objects of results that pass the filter
\* carry the key from then on.
TagValid(res, provs) ==
  [i \in 1..Len(res) |->
     IF IsValidTicker(res[i])
       THEN [kind |-> res[i].kind, bid |-> res[i].bid, ask |-> res[i].ask,
             provider_name |-> provs[i]]
       ELSE res[i]]

\* Line 38: what gather hands back, the tasks' outcomes in the tasks' order
Gathered(tasks) == [i \in 1..Len(tasks) |-> tasks[i].res]

\* gather returns once every task has ended; the call then runs to its next
\* await, to its return or to the exception that leaves it (lines 38-117).
GatherReturn ==
  /\ pc = "gather"
  /\ \A i \in 1..Len(providers) : fetch[i].st = "done"
  /\ IF GatherRaises(Gathered(fetch))
       THEN /\ pc' = "raised"
            /\ exc' = "gather"
            /\ UNCHANGED << symIdx, fetch, results, valid_tickers, evaluated,
                            all_opportunities, invoked >>
       ELSE
         \E s \in { ScanSymbol(symbols[symIdx], Gathered(fetch), providers, fees_config,
                                profit_threshold) } :
             /\ results' = TagValid(Gathered(fetch), providers)
             /\ valid_tickers' = s.valid
             /\ evaluated' = s.evaluated
             /\ all_opportunities' = all_opportunities \o s.opps
             /\ exc' = s.exc
             /\ IF s.exc # "none"
                  THEN /\ pc' = "raised"
                       /\ UNCHANGED << symIdx, fetch, invoked >>
                  ELSE IF symIdx < Len(symbols)
                    THEN /\ pc' = "gather"
                         /\ symIdx' = symIdx + 1
                         /\ fetch' = IssueFetches
                         /\ invoked' = Invoke(invoked, symIdx + 1)
                    ELSE /\ pc' = "done"
                         /\ UNCHANGED << symIdx, fetch, invoked >>
  /\ UNCHANGED << providers, fees_config, profit_threshold, symbols, replay,
                  previous >>

Next ==
  \/ \E syms \in SymbolLists : Call(syms)
  \/ \E syms \in SymbolLists : \E thr \in SidebarThresholds :
       ShowArbitrageTab(syms, thr)
  \/ CallAgain
  \/ \E i \in 1..Len(providers) : FetchComplete(i)
  \/ \E i \in 1..Len(providers) : FetchHang(i)
  \/ GatherReturn

Spec == Init /\ [][Next]_vars

\* The engines that follow SOL/USDT, called over their own watch list
CentInit == Constructed(CentEngineArgs)

CentNext ==
  \/ \E syms \in CentSymbolLists : Call(syms)
  \/ \E syms \in CentSymbolLists : \E thr \in SidebarThresholds :
       ShowArbitrageTab(syms, thr)
  \/ CallAgain
  \/ \E i \in 1..Len(providers) : FetchComplete(i)
  \/ \E i \in 1..Len(providers) : FetchHang(i)
  \/ GatherReturn

CentSpec == CentInit /\ [][CentNext]_vars

(***************************************************************************)
(* Properties                                                              *)
(***************************************************************************)
Slots == 1..Len(providers)

\* The call has run lines 38-115 for a symbol: results, valid_tickers and
\* evaluated are those of the last such symbol.
JustScanned ==
  \/ pc \in {"done", "raised"} /\ symbols # <<>> /\ exc # "gather"
  \/ pc = "gather" /\ symIdx > 1

LastSymbol == IF pc = "gather" THEN symbols[symIdx - 1] ELSE symbols[symIdx]

\* A fetch that failed: it raised, or returned a dict with an 'error' key.
Failed(res) == res.kind \in {"exception", "error"}

\* A quote as the data model wants it: bid and ask numbers, positive, bid <= ask
WellFormed(res) ==
  /\ res.kind = "quote"
  /\ res.bid.t = "num" /\ res.ask.t = "num"
  /\ res.bid.v > 0 /\ res.ask.v > 0
  /\ res.bid.v <= res.ask.v

InValidSet(i) ==
  \E k \in 1..Len(valid_tickers) :
    /\ valid_tickers[k].slot = i
    /\ valid_tickers[k].bid = results[i].bid
    /\ valid_tickers[k].ask = results[i].ask

\* A pair the loop computed to the end (lines 66-100)
Computed(e) == e.outcome \in {"no_profit", "below_threshold", "emitted"}

C2_DistinctVenues ==
  \A k \in 1..Len(all_opportunities) :
    all_opportunities[k].buy_at # all_opportunities[k].sell_at

\* C3: a quote whose bid is greater than its ask is never in the valid set the
\* pairs are taken from.
C3_NoInvertedQuoteValid ==
  \A k \in 1..Len(valid_tickers) :
    (valid_tickers[k].bid.t = "num" /\ valid_tickers[k].ask.t = "num")
      => ~(valid_tickers[k].bid.v > valid_tickers[k].ask.v)

\* C4: a quote with a missing, zero or negative bid or ask is not admitted to
\* the valid set, and so is on neither side of an evaluated pair.
NotPositive(x) == x.t = "none" \/ (x.t = "num" /\ x.v <= 0)

C4_OnlyPositiveAdmitted ==
  /\ \A k \in 1..Len(valid_tickers) :
       ~NotPositive(valid_tickers[k].bid) /\ ~NotPositive(valid_tickers[k].ask)
  /\ JustScanned =>
       \A k \in 1..Len(evaluated) :
         /\ ~NotPositive(results[evaluated[k].buy].bid)
         /\ ~NotPositive(results[evaluated[k].buy].ask)
         /\ ~NotPositive(results[evaluated[k].sell].bid)
         /\ ~NotPositive(results[evaluated[k].sell].ask)

\* C5: for every pair computed, with A the buy side and B the sell side, the
\* net profit the filter reads is B.bid*(1 - taker_B) - A.ask*(1 + taker_A)
\* - withdrawal(A, base asset)*A.ask, taker_A and the withdrawal fee being
\* those of the buy venue's schedule and taker_B that of the sell venue's, and
\* the percentage is that net profit over A.ask*(1 + taker_A), times 100.
C5_NetProfitFormula ==
  JustScanned =>
    \A k \in 1..Len(evaluated) :
      LET e == evaluated[k]
          A == FeesFor(fees_config, providers[e.buy])
          B == FeesFor(fees_config, providers[e.sell])
          ask == results[e.buy].ask.v
          bid == results[e.sell].bid.v
          net == bid * (RateScale - TakerRate(B)) - ask * (RateScale + TakerRate(A))
                   - WithdrawalFee(A, BaseAsset(LastSymbol)) * ask
      IN  Computed(e) =>
            /\ e.net_profit = net
            /\ e.pctNum = net * 100
            /\ e.pctDen = ask * (RateScale + TakerRate(A))
            /\ (e.outcome = "no_profit") <=> (net <= 0)

\* A pair was emitted whose two venues have different taker rates and whose
\* buy venue charges a withdrawal fee for the base asset.
C5_Witness ==
  /\ JustScanned
  /\ \E k \in 1..Len(evaluated) :
       /\ evaluated[k].outcome = "emitted"
       /\ evaluated[k].buy_taker # evaluated[k].sell_taker
       /\ evaluated[k].withdrawal_fee > 0

\* C6: the threshold is exclusive: of the pairs with a positive net profit,
\* one whose exact percentage equals the threshold is not emitted, and one
\* whose percentage is above it, by one unit or more, is emitted.  The
\* percentage net_profit / total_cost * 100 is above threshold / ThrScale
\* exactly when net_profit is above threshold * total_cost / (100 * ThrScale),
\* bar being the whole part of that.
C6_ThresholdExclusive ==
  \A k \in 1..Len(evaluated) :
    LET e == evaluated[k]
        d == 100 * ThrScale
        bar == MulDivFloor(profit_threshold, e.total_cost, d)
        whole == (profit_threshold * (e.total_cost % d)) % d = 0
    IN  (Computed(e) /\ e.net_profit > 0) =>
          /\ (whole /\ e.net_profit = bar) => e.outcome = "below_threshold"
          /\ (e.net_profit >= bar + 1) => e.outcome = "emitted"
          /\ (e.outcome = "emitted") => (e.net_profit >= bar + 1)

\* C7: the fee lookup never fails, whatever the fee configuration: the call
\* never raises out of it, and a venue without an entry of its own is given
\* the taker rate and the withdrawal map of the configured default schedule.
C7_FeeLookupNeverFails ==
  /\ exc # "AttributeError"
  /\ \A k \in 1..Len(evaluated) :
       LET e == evaluated[k]
       IN  ( /\ Computed(e)
             /\ Lower(e.buy_at) \notin DOMAIN fees_config.d
             /\ KeyDefault \in DOMAIN fees_config.d )
           => /\ e.buy_taker = DictGet(fees_config.d[KeyDefault], "taker", DefaultTaker)
              /\ e.withdrawal_amount =
                   WithdrawalFee(fees_config.d[KeyDefault], BaseAsset(LastSymbol))

\* C8: a symbol with V valid quotes has exactly V*(V-1) pairs evaluated: every
\* ordered pair of two different valid quotes once, never a quote with itself.
C8_AllOrderedPairsOnce ==
  (JustScanned /\ exc = "none") =>
    LET V == Len(valid_tickers)
        slots == { valid_tickers[k].slot : k \in 1..V }
        pairs == { <<evaluated[k].buy, evaluated[k].sell>> : k \in 1..Len(evaluated) }
    IN  IF V < 2 THEN evaluated = <<>>
        ELSE /\ Len(evaluated) = V * (V - 1)
             /\ Cardinality(pairs) = Len(evaluated)
             /\ pairs = { p \in slots \X slots : p[1] # p[2] }

\* Three valid quotes, six pairs evaluated.
C8_Witness ==
  /\ JustScanned
  /\ exc = "none"
  /\ Len(valid_tickers) = 3
  /\ Len(evaluated) = 6

\* C9: the call never blocks for ever: when a get_ticker never completes, the
\* call is not left awaiting it with nothing else to wait for; it has a way on
\* to its return with what the other fetches brought.  Blocked is a state in
\* which no step is possible: no fetch is pending, so none can end, and
\* gather returns only when every fetch has ended.
Blocked ==
  /\ pc = "gather"
  /\ \A i \in Slots : fetch[i].st # "pending"
  /\ \E i \in Slots : fetch[i].st = "hung"

C9_NeverBlocked == ~Blocked

\* C10: for a pair of well-formed quotes with ask_buy < bid_sell, the net
\* profit computed is strictly smaller for a larger taker rate of the buy
\* venue, and strictly smaller for a larger taker rate of the sell venue,
\* everything else being the same.
RateSteps == {1, 10, 100}

C10_NetProfitDecreasesWithTaker ==
  JustScanned =>
    \A k \in 1..Len(evaluated) :
      LET e == evaluated[k]
      IN  ( /\ Computed(e)
            /\ WellFormed(results[e.buy])
            /\ WellFormed(results[e.sell]) )
          => \A step \in RateSteps :
               /\ NetProfit(e.buy_price, e.sell_price, e.buy_taker + step,
                            e.sell_taker, e.withdrawal_amount) < e.net_profit
               /\ NetProfit(e.buy_price, e.sell_price, e.buy_taker,
                            e.sell_taker + step, e.withdrawal_amount) < e.net_profit

\* A pair of two well-formed quotes was computed to the end.
C10_Witness ==
  /\ JustScanned
  /\ \E k \in 1..Len(evaluated) :
       /\ Computed(evaluated[k])
       /\ WellFormed(results[evaluated[k].buy])
       /\ WellFormed(results[evaluated[k].sell])
       /\ evaluated[k].buy_price < evaluated[k].sell_price

\* C11: for every pair computed, the withdrawal fee is the amount the buy
\* venue's schedule gives for the base asset (the symbol's first component),
\* 0 when the schedule has no entry for it; it is turned into quote currency
\* by multiplying by the buy-side ask, and net profit is net revenue less total
\* cost less that amount.  An ask of 50000 and a fee of 0.0005 BTC give 25.0.
C11_WithdrawalFee ==
  /\ WithdrawalFeeUsd(5, 50000) = 25 * RateScale
  /\ JustScanned =>
       \A k \in 1..Len(evaluated) :
         LET e == evaluated[k]
             schedule == FeesFor(fees_config, providers[e.buy])
             map == IF "withdrawal_fees" \in DOMAIN schedule
                      THEN schedule["withdrawal_fees"] ELSE EmptyDict
             base == LastSymbol[1]
             amount == IF base \in DOMAIN map THEN map[base] ELSE 0
         IN  Computed(e) =>
               /\ e.withdrawal_amount = amount
               /\ e.withdrawal_fee = amount * results[e.buy].ask.v
               /\ e.net_profit = e.net_revenue - e.total_cost - e.withdrawal_fee

\* One pair was computed with a fee of 0.0005 of the base asset on the buy
\* venue, 0.05 at an ask of 100, and one on a buy venue without an entry for
\* the asset, with no fee.
C11_Witness ==
  /\ JustScanned
  /\ \E k \in 1..Len(evaluated) :
       /\ Computed(evaluated[k])
       /\ evaluated[k].withdrawal_amount = 5
       /\ evaluated[k].buy_price = 100
       /\ evaluated[k].withdrawal_fee = 500
  /\ \E k \in 1..Len(evaluated) :
       /\ Computed(evaluated[k])
       /\ evaluated[k].withdrawal_amount = 0
       /\ evaluated[k].withdrawal_fee = 0

\* Line 117: the call returns all_opportunities and nothing else.  A record of
\* a failed fetch in what it returns would be an entry with an 'error' field;
\* lines 47-48, which would have reported the skipped ticker, are commented out.
ReturnedFailures == SelectSeq(all_opportunities, LAMBDA o : "error" \in DOMAIN o)

\* C12: when the call over one symbol has returned, it has handed back, beside
\* what the successful quotes gave, one failure record per failed fetch (a
\* fetch that raised or returned an 'error' dict): three venues with one
\* failing fetch give two quotes and one recorded failure.
C12_FailuresReturned ==
  (pc = "done" /\ Len(symbols) = 1) =>
    /\ Len(ReturnedFailures) = Cardinality({ i \in Slots : Failed(results[i]) })
    /\ Len(valid_tickers) <= Cardinality({ i \in Slots : ~Failed(results[i]) })

\* C13: a call repeated on the same tickers from the same providers, with the
\* same fee table and threshold, returns the same opportunities as the call
\* before: nothing the first call left on the engine changes the second.
C13_SameSnapshotSameOpportunities ==
  (replay /\ pc = "done") =>
    /\ { all_opportunities[k] : k \in 1..Len(all_opportunities) }
         = { previous[k] : k \in 1..Len(previous) }
    /\ Len(all_opportunities) = Len(previous)

\* A repeated call has returned, the call before having returned two
\* opportunities or more.
C13_Witness ==
  /\ replay
  /\ pc = "done"
  /\ Len(previous) >= 2
  /\ Len(all_opportunities) >= 2

\* C14: whatever the providers' tickers are (an exception, an 'error' dict,
\* missing, zero, negative, non-numeric or inverted bid and ask) and whatever
\* the symbol, the call does not raise: with a fee table that is a dict, no
\* call ends with an exception.
C14_MarketDataNeverRaises ==
  ~fees_config.none => (pc # "raised" /\ exc = "none")

\* C15: when the fetches of a symbol are in and fewer than two of them are
\* valid, the step that scans the symbol adds no opportunity, raises nothing
\* and goes on: the fetches of the next symbol are issued, or, the symbol being
\* the last, the call returns; and no step of a call takes away an opportunity
\* an earlier symbol gave.
C15_FewQuotesSkipsSymbolOnly ==
  [][ /\ ( /\ pc = "gather"
           /\ \A i \in Slots : fetch[i].st = "done"
           /\ Len(valid_tickers') < 2 )
         => /\ all_opportunities' = all_opportunities
            /\ evaluated' = <<>>
            /\ exc' = "none"
            /\ IF symIdx < Len(symbols)
                 THEN /\ pc' = "gather"
                      /\ symIdx' = symIdx + 1
                      /\ \A i \in Slots : fetch'[i].st = "pending"
                 ELSE pc' = "done"
      /\ pc = "gather" =>
           /\ Len(all_opportunities') >= Len(all_opportunities)
           /\ SubSeq(all_opportunities', 1, Len(all_opportunities)) = all_opportunities
    ]_vars

\* The first of two symbols had fewer than two valid tickers, and the call is
\* fetching the second, one fetch of it being in.
C15_Witness ==
  /\ pc = "gather"
  /\ Len(symbols) = 2
  /\ symIdx = 2
  /\ Len(valid_tickers) < 2
  /\ \E i \in Slots : Failed(results[i])
  /\ \E i \in Slots : fetch[i].st = "done"

\* The pair of the worked example: bought at an ask of 100 on a venue with a
\* taker rate of 0.001 and no withdrawal fee for the asset, sold at a bid of
\* 102 on a venue with a taker rate of 0.002.
WorkedExample(e) ==
  /\ Computed(e)
  /\ e.buy_price = 100 /\ e.sell_price = 102
  /\ e.buy_taker = 10 /\ e.sell_taker = 20
  /\ e.withdrawal_amount = 0

\* C16 as the spec words it: the pair of the worked example has a total cost
\* of 100.1, a net revenue of 101.796, a net profit of 1.696 and a profit
\* percentage that is 1.695 to three decimals (from 1.6945 to 1.6954 at four).
C16_WorkedExampleAsWritten ==
  JustScanned =>
    \A k \in 1..Len(evaluated) :
      WorkedExample(evaluated[k]) =>
        /\ evaluated[k].total_cost = 1001000
        /\ evaluated[k].net_revenue = 1017960
        /\ evaluated[k].net_profit = 16960
        /\ ShownPercentage(LastSymbol, evaluated[k]) \in 16945..16954

\* C16, amended: the pair of the worked example has a total cost of 100.1, a
\* net revenue of 101.796, a net profit of 1.696 and a profit percentage of
\* 1.696 / 100.1 * 100, which is 1.6943 at four decimals, and it is emitted
\* with that percentage when the threshold is below it.
C16_WorkedExample ==
  JustScanned =>
    \A k \in 1..Len(evaluated) :
      WorkedExample(evaluated[k]) =>
        /\ evaluated[k].total_cost = 1001000
        /\ evaluated[k].net_revenue = 1017960
        /\ evaluated[k].net_profit = 16960
        /\ evaluated[k].pctNum = 1696000
        /\ evaluated[k].pctDen = 1001000
        /\ ShownPercentage(LastSymbol, evaluated[k]) = 16943
        /\ profit_threshold < 1694 * (ThrScale \div 1000) =>
             /\ evaluated[k].outcome = "emitted"
             /\ \E j \in 1..Len(all_opportunities) :
                  /\ all_opportunities[j].buy_at = evaluated[k].buy_at
                  /\ all_opportunities[j].sell_at = evaluated[k].sell_at
                  /\ all_opportunities[j].symbol = LastSymbol
                  /\ all_opportunities[j].net_profit_usd = 16960
                  /\ all_opportunities[j].profit_percentage = 16943

\* The pair of the worked example was computed and emitted.
C16_Witness ==
  /\ JustScanned
  /\ \E k \in 1..Len(evaluated) :
       /\ WorkedExample(evaluated[k])
       /\ evaluated[k].outcome = "emitted"

\* C17: the fetches of all the symbols of a call are issued together, and no
\* pair is evaluated before every one of them has ended: whenever pairs of a
\* symbol have been evaluated in a call, no symbol of the call is still to be
\* fetched and no fetch of the call is outstanding.
C17_NoPairBeforeAllFetchesEnd ==
  (pc \in {"gather", "done", "raised"} /\ evaluated # <<>>) =>
    /\ symIdx = Len(symbols)
    /\ \A i \in Slots : fetch[i].st = "done"

\* C18: in the step that scans a symbol, every ticker of the valid set carries
\* the name of the provider whose own fetch ended with that ticker's bid and
\* ask, and every pair is evaluated with the names, the prices and the fee
\* schedules of the providers whose fetches gave its two tickers, in whatever
\* order the fetches ended and whichever of them failed.
C18_AttributedToOwnProvider ==
  [][ ( /\ pc = "gather"
        /\ \A i \in Slots : fetch[i].st = "done" )
      => /\ \A k \in 1..Len(valid_tickers') :
              LET t == valid_tickers'[k]
              IN  /\ t.slot \in Slots
                  /\ t.provider_name = providers[t.slot]
                  /\ t.bid = fetch[t.slot].res.bid
                  /\ t.ask = fetch[t.slot].res.ask
         /\ \A k \in 1..Len(evaluated') :
              LET e == evaluated'[k]
              IN  /\ e.buy_at = providers[e.buy]
                  /\ e.sell_at = providers[e.sell]
                  /\ Computed(e) =>
                       /\ e.buy_price = fetch[e.buy].res.ask.v
                       /\ e.sell_price = fetch[e.sell].res.bid.v
                       /\ e.buy_taker = TakerRate(FeesFor(fees_config, providers[e.buy]))
                       /\ e.sell_taker = TakerRate(FeesFor(fees_config, providers[e.sell]))
         /\ \A j \in (Len(all_opportunities) + 1)..Len(all_opportunities') :
              \E k \in 1..Len(evaluated') :
                /\ evaluated'[k].outcome = "emitted"
                /\ all_opportunities'[j].buy_at = providers[evaluated'[k].buy]
                /\ all_opportunities'[j].sell_at = providers[evaluated'[k].sell]
                /\ all_opportunities'[j].buy_price
                     = fetch[evaluated'[k].buy].res.ask.v * RateScale
                /\ all_opportunities'[j].sell_price
                     = fetch[evaluated'[k].sell].res.bid.v * RateScale
    ]_vars

\* The first provider's fetch failed, the tickers of the second and the third,
\* of different names and different prices, are the valid set, and an
\* opportunity between the two was emitted.
C18_Witness ==
  /\ JustScanned
  /\ Len(providers) = 3
  /\ Failed(results[1])
  /\ Len(valid_tickers) = 2
  /\ valid_tickers[1].slot = 2
  /\ valid_tickers[2].slot = 3
  /\ valid_tickers[1].provider_name # valid_tickers[2].provider_name
  /\ valid_tickers[1].ask # valid_tickers[2].ask
  /\ \E k \in 1..Len(evaluated) : evaluated[k].outcome = "emitted"

\* C19: every pair emitted has an ask on the buy side strictly below the bid on
\* the sell side and a net profit strictly above 0, and every opportunity
\* returned shows both; a pair without a spread or without a positive net
\* profit is not emitted, whatever the threshold, a negative one too.
C19_EmittedHasSpreadAndProfit ==
  /\ \A j \in 1..Len(all_opportunities) :
       /\ all_opportunities[j].buy_price < all_opportunities[j].sell_price
       /\ all_opportunities[j].net_profit_usd > 0
  /\ JustScanned =>
       \A k \in 1..Len(evaluated) :
         LET e == evaluated[k]
             A == FeesFor(fees_config, providers[e.buy])
             B == FeesFor(fees_config, providers[e.sell])
             ask == results[e.buy].ask.v
             bid == results[e.sell].bid.v
             net == bid * (RateScale - TakerRate(B)) - ask * (RateScale + TakerRate(A))
                      - WithdrawalFee(A, BaseAsset(LastSymbol)) * ask
         IN  /\ (e.outcome = "emitted") => (ask < bid /\ net > 0)
             /\ (Computed(e) /\ net <= 0) => e.outcome = "no_profit"
             /\ (~Raises(e) /\ ask >= bid) => e.outcome = "no_spread"

\* C20: the two decisions are taken on the values as computed, not as rounded:
\* a computed pair is emitted exactly when its net profit is above 0 and its
\* exact percentage net_profit / total_cost * 100 is above the threshold, also
\* when that percentage rounded to 4 decimals is the threshold itself; the
\* rounded values are what the opportunity shows.
C20_DecisionsOnUnroundedValues ==
  JustScanned =>
    \A k \in 1..Len(evaluated) :
      LET e == evaluated[k]
          above == e.net_profit
                     > MulDivFloor(profit_threshold, e.total_cost, 100 * ThrScale)
      IN  Computed(e) =>
            /\ (e.outcome = "emitted") <=> (e.net_profit > 0 /\ above)
            /\ (e.outcome = "emitted") =>
                 \E j \in 1..Len(all_opportunities) :
                   /\ all_opportunities[j].buy_at = e.buy_at
                   /\ all_opportunities[j].sell_at = e.sell_at
                   /\ all_opportunities[j].symbol = LastSymbol
                   /\ all_opportunities[j].net_profit_usd = ShownNetProfit(LastSymbol, e)
                   /\ all_opportunities[j].profit_percentage
                        = ShownPercentage(LastSymbol, e)

\* C21: a call has no effect but its get_ticker calls: the engine's providers,
\* fees_config and profit_threshold are those the constructor set, or for
\* the threshold the one the arbitrage tab wrote before it called, and when
\* the call has ended every object the providers' fetches returned is as the
\* provider returned it.
C21_NoSideEffect ==
  /\ \E args \in EngineArgs :
       /\ providers = args[1]
       /\ fees_config = (IF args[2].hasFees THEN args[2].fees ELSE PyDict(EmptyDict))
       /\ \/ profit_threshold =
               (IF args[2].hasThreshold THEN args[2].threshold ELSE DefaultThreshold)
          \/ profit_threshold \in SidebarThresholds
  /\ (pc \in {"done", "raised"} /\ symbols # <<>> /\ exc # "gather") =>
       \A i \in Slots : results[i] = fetch[i].res

\* C22: a call calls get_ticker once and no more for every provider and every
\* symbol, a fetch that failed not being tried again: no get_ticker is ever
\* called twice for a provider and a position of symbols, a call that is
\* fetching has called it once for every provider and every symbol up to the
\* one it is at and for none after, and a call that has returned has called
\* it once for every provider and every symbol.
C22_OneFetchPerProviderAndSymbol ==
  /\ \A i \in Slots : \A k \in DOMAIN invoked[i] : invoked[i][k] <= 1
  /\ pc = "gather" =>
       \A i \in Slots : \A k \in 1..Len(symbols) :
         invoked[i][k] = (IF k <= symIdx THEN 1 ELSE 0)
  /\ pc = "done" =>
       \A i \in Slots : \A k \in 1..Len(symbols) : invoked[i][k] = 1

\* A call over two symbols has returned, a fetch of the last symbol having
\* failed.
C22_Witness ==
  /\ pc = "done"
  /\ Len(symbols) = 2
  /\ \E i \in Slots : results[i].kind = "exception"
  /\ \A i \in Slots : invoked[i] = <<1, 1>>

\* The engine was made from a config without a 'threshold' entry.
NoThresholdGiven ==
  \E args \in EngineArgs :
    /\ ~args[2].hasThreshold
    /\ providers = args[1]
    /\ fees_config = (IF args[2].hasFees THEN args[2].fees ELSE PyDict(EmptyDict))

\* C23: an engine made from a config without 'threshold' has a minimum profit
\* of 0.1 percent: a computed pair whose percentage net_profit / total_cost
\* * 100 is above 0 and not above 0.1, that is whose net profit times 1000 is
\* not above its total cost, is not emitted.
C23_DefaultThresholdTenthOfPercent ==
  NoThresholdGiven =>
    \A k \in 1..Len(evaluated) :
      ( /\ Computed(evaluated[k])
        /\ evaluated[k].net_profit > 0
        /\ evaluated[k].net_profit * 1000 <= evaluated[k].total_cost )
      => evaluated[k].outcome # "emitted"

\* Two pairs of the last symbol scanned, one the reverse of the other, were
\* both emitted.
BothDirectionsEmitted ==
  \E j, k \in 1..Len(evaluated) :
    /\ evaluated[j].outcome = "emitted"
    /\ evaluated[k].outcome = "emitted"
    /\ evaluated[j].buy = evaluated[k].sell
    /\ evaluated[j].sell = evaluated[k].buy

\* C24: when every ticker of a symbol's valid set has its bid at or below its
\* ask, not both directions between two providers are emitted for the symbol;
\* both are emitted only when some valid ticker has its bid above its ask.
C24_OneDirectionUnlessInverted ==
  (JustScanned /\ BothDirectionsEmitted) =>
    \E k \in 1..Len(valid_tickers) :
      /\ valid_tickers[k].bid.t = "num"
      /\ valid_tickers[k].ask.t = "num"
      /\ valid_tickers[k].bid.v > valid_tickers[k].ask.v

\* Every valid ticker has bid <= ask, one direction between two providers was
\* emitted, and the reverse direction was evaluated and dropped.
C24_Witness ==
  /\ JustScanned
  /\ \A k \in 1..Len(valid_tickers) : valid_tickers[k].bid.v <= valid_tickers[k].ask.v
  /\ \E j, k \in 1..Len(evaluated) :
       /\ evaluated[j].outcome = "emitted"
       /\ evaluated[j].buy = evaluated[k].sell
       /\ evaluated[j].sell = evaluated[k].buy
       /\ evaluated[k].outcome = "no_spread"

(***************************************************************************)
(* C25: in every emitted opportunity the net_profit_usd shown (4 decimals) *)
(* is strictly positive, sell_price is strictly greater than buy_price,    *)
(* and net_profit_usd equals gross_profit_usd minus total_fees_usd.        *)
(***************************************************************************)
C25_ShownProfitPositiveAndConsistent ==
  \A k \in DOMAIN all_opportunities :
    LET o == all_opportunities[k] IN
    /\ o.net_profit_usd > 0
    /\ o.sell_price > o.buy_price
    /\ o.net_profit_usd = o.gross_profit_usd - o.total_fees_usd

====
